---- MODULE Spec2Model ----
(***************************************************************************)
(* A model of the type checkers of ts-tapl: arith.ts, basic.ts and obj.ts  *)
(* (obj.ts holds two checkers: the object checker, lines 1-198, and the    *)
(* seq2/const2 checker, lines 199-366).                                    *)
(*                                                                         *)
(* Terms and Types are records carrying the source's field names.  A       *)
(* TypeEnv is a JavaScript object: the model keeps a store of objects      *)
(* (a sequence of name -> Type functions) and passes references (indices   *)
(* into the store), so that copying ({...tyEnv}) and assigning in place    *)
(* (newTyEnv[name] = type) are different things, as they are in the code.  *)
(* Every call of typecheck is recorded, in order, with the position of the *)
(* sub-term in the checked term and the bindings it was checked under.     *)
(***************************************************************************)
EXTENDS Integers, Sequences, FiniteSets, TLC

VARIABLES
    pc,         \* the calls made so far
    t, tyEnv,   \* the term and the bindings of the environment passed in
    out,        \* outcome of obj.ts typecheck(t, tyEnv)
    out_seq2,   \* outcome of the seq2 checker's typecheck(t, tyEnv)
    out_basic,  \* outcome of basic.ts typecheck(t, tyEnv)
    out_arith,  \* outcome of arith.ts typecheck(t)
    t2, out2,   \* a second term and the outcome of obj.ts typecheck(t2, tyEnv)
    eq          \* typeEq of the two types returned, in both directions

vars == <<pc, t, tyEnv, out, out_seq2, out_basic, out_arith, t2, out2, eq>>

(***************************************************************************)
(* Bounds of the model                                                     *)
(***************************************************************************)
\* longest params / args / props / statement list of a generated term
MaxLen == 2

(***************************************************************************)
(* Types (obj.ts:21-28) and JavaScript values that can stand for one       *)
(***************************************************************************)
Boolean == [tag |-> "Boolean"]

Number == [tag |-> "Number"]

Func(params, retType) == [tag |-> "Func", params |-> params, retType |-> retType]

Object(props) == [tag |-> "Object", props |-> props]

Param(name, type) == [name |-> name, type |-> type]

PropertyType(name, type) == [name |-> name, type |-> type]

\* the value `undefined` (a missing property, a failed find)
undefined == [js |-> "undefined"]

\* the value `null` (lastTy of an empty seq2); reading a field of it throws
null == [js |-> "null"]

\* The members every object literal inherits from Object.prototype.  tyEnv
\* is created as {} and copied with {...tyEnv}, so tyEnv["toString"] is a
\* function although no binding of that name was ever made.  One inherited
\* name stands for all of them (constructor, valueOf, hasOwnProperty, ...).
ProtoNames == {"toString"}

\* An inherited member: a function object; its .tag reads as undefined.
ProtoMember == [tag |-> "undefined", js |-> "function"]

\* a well-formed Type of the object checker
RECURSIVE IsType(_)
IsType(ty) ==
    /\ "tag" \in DOMAIN ty
    /\ CASE ty.tag \in {"Boolean", "Number"} -> TRUE
         [] ty.tag = "Func" ->
                /\ \A i \in 1..Len(ty.params) : IsType(ty.params[i].type)
                /\ IsType(ty.retType)
         [] ty.tag = "Object" ->
                \A i \in 1..Len(ty.props) : IsType(ty.props[i].type)
         [] OTHER -> FALSE

(***************************************************************************)
(* Environments: objects in a store                                        *)
(***************************************************************************)
\* the bindings of an object with one more own property
envSet(env, name, type) ==
    [k \in DOMAIN env \cup {name} |-> IF k = name THEN type ELSE env[k]]

\* tyEnv[name]: own property, else the prototype's, else undefined
lookup(env, name) ==
    IF name \in DOMAIN env THEN env[name]
    ELSE IF name \in ProtoNames THEN ProtoMember
    ELSE undefined

\* the machine state threaded through a check: the objects, the calls made
NewHeap(env) == [store |-> <<env>>, visited |-> <<>>]

\* spread with the copy forgotten (newTyEnv = tyEnv): the same object
spread_alias(h, ref) == [h |-> h, ref |-> ref]

\* { ...tyEnv }: a new object holding the own properties of tyEnv
spread(h, ref) ==
    [h |-> [h EXCEPT !.store = Append(@, @[ref])], ref |-> Len(h.store) + 1]

\* newTyEnv[name] = type
assign(h, ref, name, type) ==
    [h EXCEPT !.store[ref] = envSet(@, name, type)]

\* entry of typecheck(t, tyEnv): the call is recorded
enter(h, path, ref) ==
    [h EXCEPT !.visited = Append(@, [path |-> path, env |-> h.store[ref]])]

(***************************************************************************)
(* Outcomes                                                                *)
(***************************************************************************)
\* error(message, term): throws an Error naming the term
error(message, term) == [message |-> message, term |-> term]

\* a thrown string or Error without a term (arith.ts, basic.ts, seq2 checker)
thrown(message) == [message |-> message]

Return(ty, h) == [kind |-> "return", ty |-> ty, h |-> h]

Throw(e, h) == [kind |-> "throw", err |-> e, h |-> h]

(***************************************************************************)
(* obj.ts: typeEq                                                          *)
(***************************************************************************)
\* find searching from the end (findLast): the last match
find_last(props, name) ==
    LET I == {i \in 1..Len(props) : props[i].name = name}
    IN  IF I = {} THEN undefined
        ELSE props[CHOOSE i \in I : \A j \in I : i >= j]

\* props.find((prop) => prop.name === name): the first match, else undefined
find(props, name) ==
    LET I == {i \in 1..Len(props) : props[i].name = name}
    IN  IF I = {} THEN undefined
        ELSE props[CHOOSE i \in I : \A j \in I : i <= j]

RECURSIVE typeEq(_, _)
typeEq(ty1, ty2) ==
    CASE ty2.tag = "Boolean" -> ty1.tag = "Boolean"
      [] ty2.tag = "Number" -> ty1.tag = "Number"
      [] ty2.tag = "Func" ->
            IF ty1.tag # "Func" THEN FALSE
            ELSE IF Len(ty1.params) # Len(ty2.params) THEN FALSE
            ELSE IF \E i \in 1..Len(ty1.params) :
                        ~typeEq(ty1.params[i].type, ty2.params[i].type)
                 THEN FALSE
            ELSE IF ~typeEq(ty1.retType, ty2.retType) THEN FALSE
            ELSE TRUE
      [] ty2.tag = "Object" ->
            IF ty1.tag # "Object" THEN FALSE
            ELSE IF Len(ty1.props) # Len(ty2.props) THEN FALSE
            ELSE IF \E k \in 1..Len(ty2.props) :
                        LET prop2 == ty2.props[k]
                            prop1 == find(ty1.props, prop2.name)
                        IN  \/ prop1 = undefined
                            \/ ~typeEq(prop1.type, prop2.type)
                 THEN FALSE
            ELSE TRUE
      \* no case matches: the switch falls through and the function returns
      \* undefined, which every caller reads under `!` as false
      [] OTHER -> FALSE

(***************************************************************************)
(* obj.ts: typecheck                                                       *)
(***************************************************************************)
\* condTy.tag !== "Boolean"
notBoolean(ty) == ty.tag # "Boolean"

\* the Number test inverted (=== for !==)
notNumber_inverted(ty) == ty.tag = "Number"

\* leftTy.tag !== "Number"
notNumber(ty) == ty.tag # "Number"

\* the count test written with < : too few arguments pass
wrongNumberOfArguments_fewer(funcTy, args) == Len(funcTy.params) < Len(args)

\* funcTy.params.length !== t.args.length
wrongNumberOfArguments(funcTy, args) == Len(funcTy.params) # Len(args)

\* for (const { name, type } of t.params) newTyEnv[name] = type;
RECURSIVE bindParams(_, _, _, _)
bindParams(h, ref, params, i) ==
    IF i > Len(params) THEN h
    ELSE bindParams(assign(h, ref, params[i].name, params[i].type),
                    ref, params, i + 1)

RECURSIVE typecheck(_, _, _, _)
RECURSIVE callArgs(_, _, _, _, _, _)
RECURSIVE objectNewProps(_, _, _, _, _, _)

\* the loop over t.args of case "call", from argument i on
callArgs(term, funcTy, i, ref, h, path) ==
    IF i > Len(term.args) THEN Return(funcTy.retType, h)
    ELSE LET a == typecheck(term.args[i], ref, h, Append(path, i))
         IN  IF a.kind = "throw" THEN a
             ELSE IF ~typeEq(a.ty, funcTy.params[i].type)
                  THEN Throw(error("parameter type mismatch", term), a.h)
             ELSE callArgs(term, funcTy, i + 1, ref, a.h, path)

\* t.props.map(({name, term}) => ({name, type: typecheck(term, tyEnv)}))
objectNewProps(term, i, props, ref, h, path) ==
    IF i > Len(term.props) THEN Return(Object(props), h)
    ELSE LET p == typecheck(term.props[i].term, ref, h, Append(path, i))
         IN  IF p.kind = "throw" THEN p
             ELSE objectNewProps(term, i + 1,
                      Append(props, PropertyType(term.props[i].name, p.ty)),
                      ref, p.h, path)

\* typecheck(t, tyEnv).  ref: the object tyEnv refers to; path: where the
\* term sits in the term being checked (child numbers: if cond 1, thn 2,
\* els 3; add left 1, right 2; func body 1; call func 0, args 1..n; seq body
\* 1, rest 2; const init 1, rest 2; objectNew props 1..n; objectGet obj 1).
typecheck(term, ref, h0, path) ==
    LET h == enter(h0, path, ref)
    IN  CASE term.tag = "true" -> Return(Boolean, h)
          [] term.tag = "false" -> Return(Boolean, h)
          [] term.tag = "if" ->
                LET c == typecheck(term.cond, ref, h, Append(path, 1))
                IN  IF c.kind = "throw" THEN c
                    ELSE IF notBoolean(c.ty)
                         THEN Throw(error("boolean expected", term.cond), c.h)
                    ELSE
                    LET th == typecheck(term.thn, ref, c.h, Append(path, 2))
                    IN  IF th.kind = "throw" THEN th
                        ELSE
                        LET el == typecheck(term.els, ref, th.h, Append(path, 3))
                        IN  IF el.kind = "throw" THEN el
                            ELSE IF ~typeEq(th.ty, el.ty)
                                 THEN Throw(error("then and else must have the same type", term), el.h)
                            ELSE Return(th.ty, el.h)
          [] term.tag = "number" -> Return(Number, h)
          [] term.tag = "add" ->
                LET l == typecheck(term.left, ref, h, Append(path, 1))
                IN  IF l.kind = "throw" THEN l
                    ELSE IF notNumber(l.ty)
                         THEN Throw(error("number expected", term.left), l.h)
                    ELSE
                    LET r == typecheck(term.right, ref, l.h, Append(path, 2))
                    IN  IF r.kind = "throw" THEN r
                        ELSE IF notNumber(r.ty)
                             THEN Throw(error("number expected", term.right), r.h)
                        ELSE Return(Number, r.h)
          [] term.tag = "var" ->
                IF lookup(h.store[ref], term.name) = undefined
                THEN Throw(error("unknown variable: " \o term.name, term), h)
                ELSE Return(lookup(h.store[ref], term.name), h)
          [] term.tag = "func" ->
                LET new == spread(h, ref)
                    hb == bindParams(new.h, new.ref, term.params, 1)
                    b == typecheck(term.body, new.ref, hb, Append(path, 1))
                IN  IF b.kind = "throw" THEN b
                    ELSE Return(Func(term.params, b.ty), b.h)
          [] term.tag = "call" ->
                LET f == typecheck(term.func, ref, h, Append(path, 0))
                IN  IF f.kind = "throw" THEN f
                    ELSE IF f.ty.tag # "Func"
                         THEN Throw(error("function type expected", term), f.h)
                    ELSE IF wrongNumberOfArguments(f.ty, term.args)
                         THEN Throw(error("wrong number of arguments", term), f.h)
                    ELSE callArgs(term, f.ty, 1, ref, f.h, path)
          [] term.tag = "seq" ->
                LET b == typecheck(term.body, ref, h, Append(path, 1))
                IN  IF b.kind = "throw" THEN b
                    ELSE typecheck(term.rest, ref, b.h, Append(path, 2))
          [] term.tag = "const" ->
                LET i == typecheck(term.init, ref, h, Append(path, 1))
                IN  IF i.kind = "throw" THEN i
                    ELSE LET new == spread(i.h, ref)
                             hn == assign(new.h, new.ref, term.name, i.ty)
                         IN  typecheck(term.rest, new.ref, hn, Append(path, 2))
          [] term.tag = "objectNew" ->
                objectNewProps(term, 1, <<>>, ref, h, path)
          [] term.tag = "objectGet" ->
                LET o == typecheck(term.obj, ref, h, Append(path, 1))
                IN  IF o.kind = "throw" THEN o
                    ELSE IF o.ty.tag # "Object"
                         THEN Throw(error("object type expected", term), o.h)
                    ELSE LET prop == find(o.ty.props, term.propName)
                         IN  IF prop = undefined
                             THEN Throw(error("unknown property: " \o term.propName, term), o.h)
                             ELSE Return(prop.type, o.h)
          [] OTHER -> Throw(error("not implemented yet", term), h)

(***************************************************************************)
(* Terms (obj.ts:4-19, 202-215)                                            *)
(***************************************************************************)
True == [tag |-> "true"]

False == [tag |-> "false"]

Num == [tag |-> "number", n |-> 1]

If(cond, thn, els) == [tag |-> "if", cond |-> cond, thn |-> thn, els |-> els]

Add(left, right) == [tag |-> "add", left |-> left, right |-> right]

Var(name) == [tag |-> "var", name |-> name]

Fn(params, body) == [tag |-> "func", params |-> params, body |-> body]

Call(func, args) == [tag |-> "call", func |-> func, args |-> args]

SeqT(body, rest) == [tag |-> "seq", body |-> body, rest |-> rest]

Const(name, init, rest) == [tag |-> "const", name |-> name, init |-> init, rest |-> rest]

ObjectNew(props) == [tag |-> "objectNew", props |-> props]

PropertyTerm(name, term) == [name |-> name, term |-> term]

ObjectGet(obj, propName) == [tag |-> "objectGet", obj |-> obj, propName |-> propName]

Seq2(body) == [tag |-> "seq2", body |-> body]

Const2(name, init) == [tag |-> "const2", name |-> name, init |-> init]

(***************************************************************************)
(* arith.ts: typecheck(t), no environment                                  *)
(***************************************************************************)
\* the branch test comparing thnTy with itself
arith_differentTypes_self(thnTy, elsTy) == thnTy.tag # thnTy.tag

\* thnTy.tag !== elsTy.tag
arith_differentTypes(thnTy, elsTy) == thnTy.tag # elsTy.tag

RECURSIVE arith_typecheck(_)
arith_typecheck(term) ==
    CASE term.tag = "true" -> [kind |-> "return", ty |-> Boolean]
      [] term.tag = "false" -> [kind |-> "return", ty |-> Boolean]
      [] term.tag = "if" ->
            LET c == arith_typecheck(term.cond)
            IN  IF c.kind = "throw" THEN c
                ELSE IF c.ty.tag # "Boolean"
                     THEN [kind |-> "throw", err |-> thrown("boolean expected")]
                ELSE
                LET th == arith_typecheck(term.thn)
                IN  IF th.kind = "throw" THEN th
                    ELSE
                    LET el == arith_typecheck(term.els)
                    IN  IF el.kind = "throw" THEN el
                        ELSE IF arith_differentTypes(th.ty, el.ty)
                             THEN [kind |-> "throw",
                                   err |-> thrown("then and else have different types")]
                        ELSE [kind |-> "return", ty |-> th.ty]
      [] term.tag = "number" -> [kind |-> "return", ty |-> Number]
      [] term.tag = "add" ->
            LET l == arith_typecheck(term.left)
            IN  IF l.kind = "throw" THEN l
                ELSE IF l.ty.tag # "Number"
                     THEN [kind |-> "throw", err |-> thrown("number expected")]
                ELSE
                LET r == arith_typecheck(term.right)
                IN  IF r.kind = "throw" THEN r
                    ELSE IF r.ty.tag # "Number"
                         THEN [kind |-> "throw", err |-> thrown("number expected")]
                    ELSE [kind |-> "return", ty |-> Number]
      \* the switch has no default: the function returns undefined
      [] OTHER -> [kind |-> "return", ty |-> undefined]

(***************************************************************************)
(* basic.ts: typeEq, typecheck                                             *)
(***************************************************************************)
RECURSIVE basic_typeEq(_, _)
basic_typeEq(ty1, ty2) ==
    CASE ty2.tag = "Boolean" -> ty1.tag = "Boolean"
      [] ty2.tag = "Number" -> ty1.tag = "Number"
      [] ty2.tag = "Func" ->
            IF ty1.tag # "Func" THEN FALSE
            ELSE IF Len(ty1.params) # Len(ty2.params) THEN FALSE
            ELSE IF \E i \in 1..Len(ty1.params) :
                        ~basic_typeEq(ty1.params[i].type, ty2.params[i].type)
                 THEN FALSE
            ELSE IF ~basic_typeEq(ty1.retType, ty2.retType) THEN FALSE
            ELSE TRUE
      \* no case matches: returns undefined, read under `!` as false
      [] OTHER -> FALSE

RECURSIVE basic_typecheck(_, _, _, _)
RECURSIVE basic_callArgs(_, _, _, _, _, _)

basic_callArgs(term, funcTy, i, ref, h, path) ==
    IF i > Len(term.args) THEN Return(funcTy.retType, h)
    ELSE LET a == basic_typecheck(term.args[i], ref, h, Append(path, i))
         IN  IF a.kind = "throw" THEN a
             ELSE IF ~basic_typeEq(a.ty, funcTy.params[i].type)
                  THEN Throw(thrown("parameter type mismatch"), a.h)
             ELSE basic_callArgs(term, funcTy, i + 1, ref, a.h, path)

basic_typecheck(term, ref, h0, path) ==
    LET h == enter(h0, path, ref)
    IN  CASE term.tag = "true" -> Return(Boolean, h)
          [] term.tag = "false" -> Return(Boolean, h)
          [] term.tag = "if" ->
                LET c == basic_typecheck(term.cond, ref, h, Append(path, 1))
                IN  IF c.kind = "throw" THEN c
                    ELSE IF c.ty.tag # "Boolean"
                         THEN Throw(thrown("boolean expected"), c.h)
                    ELSE
                    LET th == basic_typecheck(term.thn, ref, c.h, Append(path, 2))
                    IN  IF th.kind = "throw" THEN th
                        ELSE
                        LET el == basic_typecheck(term.els, ref, th.h, Append(path, 3))
                        IN  IF el.kind = "throw" THEN el
                            ELSE IF ~basic_typeEq(th.ty, el.ty)
                                 THEN Throw(thrown("then and else must have the same type"), el.h)
                            ELSE Return(th.ty, el.h)
          [] term.tag = "number" -> Return(Number, h)
          [] term.tag = "add" ->
                LET l == basic_typecheck(term.left, ref, h, Append(path, 1))
                IN  IF l.kind = "throw" THEN l
                    ELSE IF l.ty.tag # "Number"
                         THEN Throw(thrown("number expected"), l.h)
                    ELSE
                    LET r == basic_typecheck(term.right, ref, l.h, Append(path, 2))
                    IN  IF r.kind = "throw" THEN r
                        ELSE IF r.ty.tag # "Number"
                             THEN Throw(thrown("number expected"), r.h)
                        ELSE Return(Number, r.h)
          [] term.tag = "var" ->
                IF lookup(h.store[ref], term.name) = undefined
                THEN Throw(thrown("unknown variable: " \o term.name), h)
                ELSE Return(lookup(h.store[ref], term.name), h)
          [] term.tag = "func" ->
                LET new == spread(h, ref)
                    hb == bindParams(new.h, new.ref, term.params, 1)
                    b == basic_typecheck(term.body, new.ref, hb, Append(path, 1))
                IN  IF b.kind = "throw" THEN b
                    ELSE Return(Func(term.params, b.ty), b.h)
          [] term.tag = "call" ->
                LET f == basic_typecheck(term.func, ref, h, Append(path, 0))
                IN  IF f.kind = "throw" THEN f
                    ELSE IF f.ty.tag # "Func"
                         THEN Throw(thrown("function type expected"), f.h)
                    ELSE IF Len(f.ty.params) # Len(term.args)
                         THEN Throw(thrown("wrong number of arguments"), f.h)
                    ELSE basic_callArgs(term, f.ty, 1, ref, f.h, path)
          [] OTHER -> Throw(thrown("not implemented yet"), h)

(***************************************************************************)
(* obj.ts:199-366: the checker with seq2 / const2.  A Type variable may    *)
(* hold null here (the result of a seq2 without a plain statement), and    *)
(* reading .tag of null throws a TypeError.                                *)
(***************************************************************************)
TypeError == thrown("TypeError: Cannot read properties of null (reading 'tag')")

\* typeEq of this checker: "true", "false", or "TypeError" when it throws
RECURSIVE seq2_typeEq(_, _)
RECURSIVE seq2_paramsEq(_, _, _)

\* the loop over ty1.params, from parameter i on
seq2_paramsEq(ty1, ty2, i) ==
    IF i > Len(ty1.params) THEN "true"
    ELSE LET r == seq2_typeEq(ty1.params[i].type, ty2.params[i].type)
         IN  IF r = "true" THEN seq2_paramsEq(ty1, ty2, i + 1) ELSE r

seq2_typeEq(ty1, ty2) ==
    IF ty2 = null THEN "TypeError"
    ELSE CASE ty2.tag \in {"Boolean", "Number"} ->
                IF ty1 = null THEN "TypeError"
                ELSE IF ty1.tag = ty2.tag THEN "true" ELSE "false"
           [] ty2.tag = "Func" ->
                IF ty1 = null THEN "TypeError"
                ELSE IF ty1.tag # "Func" THEN "false"
                ELSE IF Len(ty1.params) # Len(ty2.params) THEN "false"
                ELSE LET ps == seq2_paramsEq(ty1, ty2, 1)
                     IN  IF ps # "true" THEN ps
                         ELSE seq2_typeEq(ty1.retType, ty2.retType)
           \* no case matches: returns undefined, read under `!` as false
           [] OTHER -> "false"

\* the binding assigned into tyEnv itself (tyEnv[term.name] = ty)
extend_inplace(h, ref, name, ty) == [h |-> assign(h, ref, name, ty), ref |-> ref]

\* { ...tyEnv, [term.name]: ty }: a new object, tyEnv's own properties and
\* the new binding
extend(h, ref, name, ty) ==
    LET new == spread(h, ref)
    IN  [h |-> assign(new.h, new.ref, name, ty), ref |-> new.ref]

RECURSIVE seq2_typecheck(_, _, _, _)
RECURSIVE seq2_callArgs(_, _, _, _, _, _)
RECURSIVE seq2_body(_, _, _, _, _, _)

seq2_callArgs(term, funcTy, i, ref, h, path) ==
    IF i > Len(term.args) THEN Return(funcTy.retType, h)
    ELSE LET a == seq2_typecheck(term.args[i], ref, h, Append(path, i))
         IN  IF a.kind = "throw" THEN a
             ELSE LET e == seq2_typeEq(a.ty, funcTy.params[i].type)
                  IN  IF e = "TypeError" THEN Throw(TypeError, a.h)
                      ELSE IF e = "false"
                           THEN Throw(thrown("parameter type mismatch"), a.h)
                      ELSE seq2_callArgs(term, funcTy, i + 1, ref, a.h, path)

\* the loop over t.body of case "seq2", from statement i on; ref is the
\* local variable tyEnv, lastTy the local variable lastTy.  The init of a
\* const2 at position i has the path <<i, 1>>.
seq2_body(term, i, ref, lastTy, h, path) ==
    IF i > Len(term.body) THEN Return(lastTy, h)
    ELSE LET s == term.body[i]
         IN  IF s.tag = "const2"
             THEN LET r == seq2_typecheck(s.init, ref, h, path \o <<i, 1>>)
                  IN  IF r.kind = "throw" THEN r
                      ELSE LET new == extend(r.h, ref, s.name, r.ty)
                           IN  seq2_body(term, i + 1, new.ref, lastTy, new.h, path)
             ELSE LET r == seq2_typecheck(s, ref, h, Append(path, i))
                  IN  IF r.kind = "throw" THEN r
                      ELSE seq2_body(term, i + 1, ref, r.ty, r.h, path)

seq2_typecheck(term, ref, h0, path) ==
    LET h == enter(h0, path, ref)
    IN  CASE term.tag = "true" -> Return(Boolean, h)
          [] term.tag = "false" -> Return(Boolean, h)
          [] term.tag = "if" ->
                LET c == seq2_typecheck(term.cond, ref, h, Append(path, 1))
                IN  IF c.kind = "throw" THEN c
                    ELSE IF c.ty = null THEN Throw(TypeError, c.h)
                    ELSE IF c.ty.tag # "Boolean"
                         THEN Throw(thrown("boolean expected"), c.h)
                    ELSE
                    LET th == seq2_typecheck(term.thn, ref, c.h, Append(path, 2))
                    IN  IF th.kind = "throw" THEN th
                        ELSE
                        LET el == seq2_typecheck(term.els, ref, th.h, Append(path, 3))
                        IN  IF el.kind = "throw" THEN el
                            ELSE LET e == seq2_typeEq(th.ty, el.ty)
                                 IN  IF e = "TypeError" THEN Throw(TypeError, el.h)
                                     ELSE IF e = "false"
                                          THEN Throw(thrown("then and else must have the same type"), el.h)
                                     ELSE Return(th.ty, el.h)
          [] term.tag = "number" -> Return(Number, h)
          [] term.tag = "add" ->
                LET l == seq2_typecheck(term.left, ref, h, Append(path, 1))
                IN  IF l.kind = "throw" THEN l
                    ELSE IF l.ty = null THEN Throw(TypeError, l.h)
                    ELSE IF l.ty.tag # "Number"
                         THEN Throw(thrown("number expected"), l.h)
                    ELSE
                    LET r == seq2_typecheck(term.right, ref, l.h, Append(path, 2))
                    IN  IF r.kind = "throw" THEN r
                        ELSE IF r.ty = null THEN Throw(TypeError, r.h)
                        ELSE IF r.ty.tag # "Number"
                             THEN Throw(thrown("number expected"), r.h)
                        ELSE Return(Number, r.h)
          [] term.tag = "var" ->
                IF lookup(h.store[ref], term.name) = undefined
                THEN Throw(thrown("unknown variable: " \o term.name), h)
                ELSE Return(lookup(h.store[ref], term.name), h)
          [] term.tag = "func" ->
                LET new == spread(h, ref)
                    hb == bindParams(new.h, new.ref, term.params, 1)
                    b == seq2_typecheck(term.body, new.ref, hb, Append(path, 1))
                IN  IF b.kind = "throw" THEN b
                    ELSE Return(Func(term.params, b.ty), b.h)
          [] term.tag = "call" ->
                LET f == seq2_typecheck(term.func, ref, h, Append(path, 0))
                IN  IF f.kind = "throw" THEN f
                    ELSE IF f.ty = null THEN Throw(TypeError, f.h)
                    ELSE IF f.ty.tag # "Func"
                         THEN Throw(thrown("function type expected"), f.h)
                    ELSE IF Len(f.ty.params) # Len(term.args)
                         THEN Throw(thrown("wrong number of arguments"), f.h)
                    ELSE seq2_callArgs(term, f.ty, 1, ref, f.h, path)
          [] term.tag = "seq" ->
                LET b == seq2_typecheck(term.body, ref, h, Append(path, 1))
                IN  IF b.kind = "throw" THEN b
                    ELSE seq2_typecheck(term.rest, ref, b.h, Append(path, 2))
          [] term.tag = "seq2" -> seq2_body(term, 1, ref, null, h, path)
          [] term.tag = "const" ->
                LET i == seq2_typecheck(term.init, ref, h, Append(path, 1))
                IN  IF i.kind = "throw" THEN i
                    ELSE LET new == spread(i.h, ref)
                             hn == assign(new.h, new.ref, term.name, i.ty)
                         IN  seq2_typecheck(term.rest, new.ref, hn, Append(path, 2))
          [] OTHER -> Throw(thrown("not implemented yet"), h)

(***************************************************************************)
(* Inputs: the terms and environments the checkers are run on              *)
(***************************************************************************)
SeqsUpTo(S, n) == UNION {[1..k -> S] : k \in 0..n}

VarNames == {"x", "f", "toString"}

PropNames == {"a", "b"}

Leaves == {True, False, Num} \cup {Var(n) : n \in VarNames}

\* leaves used where a list of sub-terms sits two levels down
FewLeaves == {True, Num, Var("x")}

F0 == Func(<<>>, Number)

F1 == Func(<<Param("x", Number)>>, Boolean)

F2 == Func(<<Param("x", Number), Param("y", Boolean)>>, Number)

Envs ==
    { <<>>, [x |-> Number], [f |-> F0], [f |-> F1], [f |-> F2],
      [x |-> Boolean, f |-> F2], [x |-> Number, f |-> F2] }

ParamChoices == {Param("x", Number), Param("x", Boolean), Param("f", F0)}

FuncTerms == {Fn(ps, b) : ps \in SeqsUpTo(ParamChoices, MaxLen), b \in Leaves}

FewFuncTerms ==
    {Fn(ps, b) : ps \in SeqsUpTo(ParamChoices, 1), b \in {True, Num}}

CallTerms == {Call(f, as) : f \in Leaves, as \in SeqsUpTo(Leaves, MaxLen)}

ObjectNewTerms ==
    {ObjectNew(ps) :
        ps \in SeqsUpTo({PropertyTerm(n, l) : n \in PropNames, l \in FewLeaves}, MaxLen)}

\* every term of basic.ts one level deep
BasicTerms1 ==
    Leaves
    \cup {If(c, a, b) : c \in Leaves, a \in Leaves, b \in Leaves}
    \cup {Add(a, b) : a \in Leaves, b \in Leaves}
    \cup FuncTerms \cup CallTerms

\* terms of basic.ts two levels deep: a call of a literal function, a
\* branch on a compound term, a call with compound arguments
BasicTerms2 ==
    {Call(f, as) : f \in FuncTerms, as \in SeqsUpTo(FewLeaves, MaxLen)}
    \cup {If(c, a, b) : c \in {Add(Num, True), Add(Var("f"), Num), If(True, True, Num)},
                        a \in FewLeaves, b \in {Add(True, Num), Num}}
    \cup {If(True, a, b) : a \in FewFuncTerms, b \in FewFuncTerms}
    \cup {Call(Var("f"), <<a, b>>) : a \in {Add(True, Num), Add(Num, Num)},
                                     b \in {Add(True, Num), If(True, True, False)}}

ObjTerms1 ==
    BasicTerms1
    \cup {SeqT(a, b) : a \in Leaves, b \in Leaves}
    \cup {Const(n, a, b) : n \in VarNames, a \in Leaves, b \in Leaves}
    \cup ObjectNewTerms
    \cup {ObjectGet(o, p) : o \in Leaves, p \in PropNames}

\* terms of obj.ts two levels deep: also a projection out of a literal and
\* a use after a const
ObjTerms2 ==
    BasicTerms2
    \cup {ObjectGet(o, p) : o \in ObjectNewTerms, p \in PropNames}
    \cup {SeqT(Const(n, a, b), c) : n \in VarNames, a \in FewLeaves,
                                    b \in Leaves, c \in Leaves}

ObjTerms == ObjTerms1 \cup ObjTerms2

\* statements of a seq2
Statements ==
    {Const2(n, l) : n \in {"x", "f"}, l \in FewLeaves}
    \cup FewLeaves \cup {Var("f")}

InnerSeq2 ==
    { Seq2(<<>>), Seq2(<<Const2("x", Num), Var("x")>>),
      Seq2(<<Const2("x", True)>>) }

\* seq2 terms: flat ones, and ones with a seq2 nested in a statement, in
\* the init of a const2, or beside another term
Seq2Terms ==
    {Seq2(ss) : ss \in SeqsUpTo(Statements, MaxLen)}
    \cup {Seq2(<<a, b>>) : a \in InnerSeq2 \cup {Const2("f", i) : i \in InnerSeq2},
                           b \in Statements \cup {Seq2(<<Var("x")>>)}}
    \cup {Seq2(<<Const2("x", a), Const2("x", b), Var("x")>>) :
                           a \in {True, Num}, b \in {True, Num}}
    \cup {SeqT(a, b) : a \in InnerSeq2, b \in FewLeaves}
    \cup {Add(a, Num) : a \in InnerSeq2}
    \cup {Fn(ps, b) : ps \in SeqsUpTo(ParamChoices, 1), b \in InnerSeq2}
    \cup {Const2("x", Num)}

\* terms of arith.ts, up to two levels deep
ArithLeaves == {True, False, Num}

ArithTerms1 ==
    ArithLeaves
    \cup {If(c, a, b) : c \in ArithLeaves, a \in ArithLeaves, b \in ArithLeaves}
    \cup {Add(a, b) : a \in ArithLeaves, b \in ArithLeaves}

ArithInner ==
    {True, Num}
    \cup {If(c, a, b) : c \in {True, Num}, a \in {True, Num}, b \in {True, Num}}
    \cup {Add(a, b) : a \in {True, Num}, b \in {True, Num}}

ArithTerms ==
    ArithTerms1
    \cup {If(c, a, b) : c \in ArithInner, a \in ArithInner, b \in ArithInner}
    \cup {Add(a, b) : a \in ArithInner, b \in ArithInner}

\* the terms arith.ts declares (arith.ts:6-11)
RECURSIVE IsArithTerm(_)
IsArithTerm(term) ==
    CASE term.tag \in {"true", "false", "number"} -> TRUE
      [] term.tag = "if" ->
            IsArithTerm(term.cond) /\ IsArithTerm(term.thn) /\ IsArithTerm(term.els)
      [] term.tag = "add" -> IsArithTerm(term.left) /\ IsArithTerm(term.right)
      [] OTHER -> FALSE

\* terms whose types are compared: object literals, functions, leaves
TypeTerms ==
    ObjectNewTerms
    \cup {Fn(ps, b) : ps \in SeqsUpTo(ParamChoices, 1), b \in {True, Num, ObjectNew(<<>>)}}
    \cup {True, Num}

none == [kind |-> "none"]

(***************************************************************************)
(* The calls                                                               *)
(***************************************************************************)
\* obj.ts: typecheck(t, tyEnv)
Typecheck ==
    /\ "obj" \notin pc
    /\ out' = typecheck(t, 1, NewHeap(tyEnv), <<>>)
    /\ pc' = pc \cup {"obj"}
    /\ UNCHANGED <<t, tyEnv, out_seq2, out_basic, out_arith, t2, out2, eq>>

\* the seq2 checker: typecheck(t, tyEnv)
Seq2Typecheck ==
    /\ "seq2" \notin pc
    /\ out_seq2' = seq2_typecheck(t, 1, NewHeap(tyEnv), <<>>)
    /\ pc' = pc \cup {"seq2"}
    /\ UNCHANGED <<t, tyEnv, out, out_basic, out_arith, t2, out2, eq>>

\* basic.ts: typecheck(t, tyEnv)
BasicTypecheck ==
    /\ "basic" \notin pc
    /\ out_basic' = basic_typecheck(t, 1, NewHeap(tyEnv), <<>>)
    /\ pc' = pc \cup {"basic"}
    /\ UNCHANGED <<t, tyEnv, out, out_seq2, out_arith, t2, out2, eq>>

\* arith.ts: typecheck(t), on the terms arith.ts declares
ArithTypecheck ==
    /\ "arith" \notin pc
    /\ IsArithTerm(t)
    /\ out_arith' = arith_typecheck(t)
    /\ pc' = pc \cup {"arith"}
    /\ UNCHANGED <<t, tyEnv, out, out_seq2, out_basic, t2, out2, eq>>

\* obj.ts: typecheck(t2, tyEnv)
Typecheck2 ==
    /\ "obj2" \notin pc
    /\ out2' = typecheck(t2, 1, NewHeap(tyEnv), <<>>)
    /\ pc' = pc \cup {"obj2"}
    /\ UNCHANGED <<t, tyEnv, out, out_seq2, out_basic, out_arith, t2, eq>>

\* obj.ts: typeEq on the two types returned, each way round
TypeEq ==
    /\ {"obj", "obj2"} \subseteq pc
    /\ "eq" \notin pc
    /\ out.kind = "return" /\ out2.kind = "return"
    /\ eq' = [fwd |-> typeEq(out.ty, out2.ty), bwd |-> typeEq(out2.ty, out.ty)]
    /\ pc' = pc \cup {"eq"}
    /\ UNCHANGED <<t, tyEnv, out, out_seq2, out_basic, out_arith, t2, out2>>

(***************************************************************************)
(* Specifications                                                          *)
(***************************************************************************)
\* the object checker and the seq2 checker, each run on a term
Init ==
    /\ pc = {}
    /\ t \in ObjTerms \cup Seq2Terms
    /\ tyEnv \in Envs
    /\ out = none /\ out_seq2 = none /\ out_basic = none /\ out_arith = none
    /\ t2 = none /\ out2 = none /\ eq = none

Next == Typecheck \/ Seq2Typecheck

Spec == Init /\ [][Next]_vars

\* the three checkers of the cumulative variants run on the same term
InitRefine ==
    /\ pc = {}
    /\ \/ t \in ArithTerms /\ tyEnv = <<>>
       \/ t \in BasicTerms1 \cup BasicTerms2 /\ tyEnv \in Envs
    /\ out = none /\ out_seq2 = none /\ out_basic = none /\ out_arith = none
    /\ t2 = none /\ out2 = none /\ eq = none

NextRefine == ArithTypecheck \/ BasicTypecheck \/ Typecheck

SpecRefine == InitRefine /\ [][NextRefine]_vars

\* two terms checked by the object checker and their types compared
InitEq ==
    /\ pc = {}
    /\ t \in TypeTerms /\ t2 \in TypeTerms
    /\ tyEnv \in {<<>>, [x |-> Number]}
    /\ out = none /\ out_seq2 = none /\ out_basic = none /\ out_arith = none
    /\ out2 = none /\ eq = none

NextEq == Typecheck \/ Typecheck2 \/ TypeEq

SpecEq == InitEq /\ [][NextEq]_vars

(***************************************************************************)
(* Vocabulary of the properties                                            *)
(***************************************************************************)
\* the outcome of checking a sub-term by itself under the caller's bindings
sub(term) == typecheck(term, 1, NewHeap(tyEnv), <<>>)

Fails(r, message) == r.kind = "throw" /\ r.err.message = message

Visits(r) == {r.h.visited[i] : i \in 1..Len(r.h.visited)}

\* a call of typecheck was made on child k of the root, or below it
Reached(r, k) == \E v \in Visits(r) : Len(v.path) >= 1 /\ v.path[1] = k

\* the children of the root are entered in the order of their numbers
InOrder(r) ==
    \A i, j \in 1..Len(r.h.visited) :
        LET p == r.h.visited[i].path
            q == r.h.visited[j].path
        IN  i < j /\ Len(p) >= 1 /\ Len(q) >= 1 => p[1] <= q[1]

\* child k of a term (the numbering of typecheck's paths)
Child(term, k) ==
    CASE term.tag = "if" -> <<term.cond, term.thn, term.els>>[k]
      [] term.tag = "add" -> <<term.left, term.right>>[k]
      [] term.tag = "func" -> term.body
      [] term.tag = "call" -> IF k = 0 THEN term.func ELSE term.args[k]
      [] term.tag = "seq" -> <<term.body, term.rest>>[k]
      [] term.tag = "const" -> <<term.init, term.rest>>[k]
      [] term.tag = "objectNew" -> term.props[k].term
      [] term.tag = "objectGet" -> term.obj

\* the names bound by the scopes that enclose the position path of term
RECURSIVE Binders(_, _)
Binders(term, path) ==
    IF path = <<>> THEN {}
    ELSE LET here == CASE term.tag = "func" ->
                            {term.params[i].name : i \in 1..Len(term.params)}
                       [] term.tag = "const" /\ Head(path) = 2 -> {term.name}
                       [] OTHER -> {}
         IN  here \cup Binders(Child(term, Head(path)), Tail(path))

(***************************************************************************)
(* C10                                                                     *)
(***************************************************************************)
\* C10: typecheck(t, env) of the object checker ends in a returned
\* well-formed Type (tag Boolean, Number, Func or Object) or in a failure,
\* having entered each sub-term at most once.
C10_Totality ==
    "obj" \in pc =>
        /\ out.kind \in {"return", "throw"}
        /\ out.kind = "return" => IsType(out.ty)
        /\ \A i, j \in 1..Len(out.h.visited) :
                out.h.visited[i].path = out.h.visited[j].path => i = j

(***************************************************************************)
(* C6                                                                      *)
(***************************************************************************)
\* C6: typecheck of seq2(stmts) fails whenever stmts holds no statement
\* other than const2 bindings (it is empty, or all of it is const2).
C6_EmptySeq2Fails ==
    ( /\ "seq2" \in pc
      /\ t.tag = "seq2"
      /\ \A i \in 1..Len(t.body) : t.body[i].tag = "const2" )
    => out_seq2.kind = "throw"

(***************************************************************************)
(* C1, C2                                                                  *)
(***************************************************************************)
\* C1: typeEq is reflexive on every Type typecheck returns (object literals
\* that repeat a property name included): typeEq(a, a) is true.
C1_Reflexive ==
    ("eq" \in pc /\ IsType(out.ty) /\ out.ty = out2.ty) => eq.fwd

SameTag(a, b, tag) == a.tag = tag /\ b.tag = tag

\* the same (name, type) pairs, listed in some order
Reordered(a, b) ==
    /\ Len(a.props) = Len(b.props)
    /\ \E s \in Permutations(1..Len(a.props)) :
            \A i \in 1..Len(a.props) : b.props[i] = a.props[s[i]]

PairSet(a) == {a.props[i] : i \in 1..Len(a.props)}

\* C2: typeEq is symmetric on the Types typecheck returns; two Object types
\* listing the same pairs in different orders are typeEq both ways; an
\* Object type whose properties are a strict subset of the other's is
\* typeEq in neither direction.
C2_Symmetric ==
    ("eq" \in pc /\ IsType(out.ty) /\ IsType(out2.ty)) =>
        /\ eq.fwd = eq.bwd
        /\ SameTag(out.ty, out2.ty, "Object") /\ Reordered(out.ty, out2.ty)
              => eq.fwd /\ eq.bwd
        /\ ( /\ SameTag(out.ty, out2.ty, "Object")
             /\ PairSet(out.ty) \subseteq PairSet(out2.ty)
             /\ PairSet(out.ty) # PairSet(out2.ty) )
              => ~eq.fwd /\ ~eq.bwd

(***************************************************************************)
(* C7                                                                      *)
(***************************************************************************)
\* the positions of the properties named name
Named(props, name) == {i \in 1..Len(props) : props[i].name = name}

Least(I) == CHOOSE i \in I : \A j \in I : i <= j

Greatest(I) == CHOOSE i \in I : \A j \in I : i >= j

\* C7 as stated: objectGet(obj, p) fails with 'object type expected' when
\* obj checks to a Type that is no Object, with 'unknown property' when the
\* Object type has no property p, and else returns the type of the LAST
\* property named p.
C7_LastOccurrence ==
    ("obj" \in pc /\ t.tag = "objectGet" /\ sub(t.obj).kind = "return") =>
        LET o == sub(t.obj).ty
        IN  IF o.tag # "Object" THEN Fails(out, "object type expected")
            ELSE IF Named(o.props, t.propName) = {}
                 THEN Fails(out, "unknown property: " \o t.propName)
            ELSE /\ out.kind = "return"
                 /\ out.ty = o.props[Greatest(Named(o.props, t.propName))].type

\* C7, amended: as above, but the type returned is that of the FIRST
\* property named p.
C7_FirstOccurrence ==
    ("obj" \in pc /\ t.tag = "objectGet" /\ sub(t.obj).kind = "return") =>
        LET o == sub(t.obj).ty
        IN  IF o.tag # "Object" THEN Fails(out, "object type expected")
            ELSE IF Named(o.props, t.propName) = {}
                 THEN Fails(out, "unknown property: " \o t.propName)
            ELSE /\ out.kind = "return"
                 /\ out.ty = o.props[Least(Named(o.props, t.propName))].type

\* a projection of a name the literal lists twice, with different types
C7_Witness ==
    /\ "obj" \in pc /\ t.tag = "objectGet" /\ t.obj.tag = "objectNew"
    /\ sub(t.obj).kind = "return"
    /\ LET o == sub(t.obj).ty
           I == Named(o.props, t.propName)
       IN  /\ Cardinality(I) = 2
           /\ o.props[Least(I)].type # o.props[Greatest(I)].type
           /\ out.kind = "return" /\ out.ty = o.props[Least(I)].type

(***************************************************************************)
(* C3                                                                      *)
(***************************************************************************)
\* argument i checks, to a type typeEq to the type of parameter i
ArgFits(funcTy, i) ==
    /\ sub(t.args[i]).kind = "return"
    /\ typeEq(sub(t.args[i]).ty, funcTy.params[i].type)

\* argument i checks, to a type not typeEq to the type of parameter i
ArgMismatch(funcTy, i) ==
    /\ sub(t.args[i]).kind = "return"
    /\ ~typeEq(sub(t.args[i]).ty, funcTy.params[i].type)

IsCallOfFunc ==
    /\ "obj" \in pc /\ t.tag = "call"
    /\ sub(t.func).kind = "return" /\ sub(t.func).ty.tag = "Func"

\* C3 as stated: for call(f, args) with f checking to Func(params, ret),
\* typecheck fails with 'wrong number of arguments' when the counts differ;
\* with equal counts it fails with 'parameter type mismatch' whenever SOME
\* argument has a type not typeEq to its parameter's; it returns ret only
\* when the counts are equal and every argument type is typeEq.
C3_AnyMismatch ==
    IsCallOfFunc =>
        LET f == sub(t.func).ty
            n == Len(t.args)
        IN  /\ n # Len(f.params) => Fails(out, "wrong number of arguments")
            /\ (n = Len(f.params) /\ \E i \in 1..n : ArgMismatch(f, i))
                  => Fails(out, "parameter type mismatch")
            /\ out.kind = "return" =>
                  /\ n = Len(f.params)
                  /\ \A i \in 1..n : ArgFits(f, i)
                  /\ out.ty = f.retType

\* C3, amended: the 'parameter type mismatch' failure is promised when
\* every argument before the mismatching one checks (has a type); an
\* earlier argument that fails to check ends the call with its own failure.
C3_FirstMismatch ==
    IsCallOfFunc =>
        LET f == sub(t.func).ty
            n == Len(t.args)
        IN  /\ n # Len(f.params) => Fails(out, "wrong number of arguments")
            /\ (n = Len(f.params) /\ \E i \in 1..n :
                    /\ ArgMismatch(f, i)
                    /\ \A j \in 1..(i - 1) : sub(t.args[j]).kind = "return")
                  => Fails(out, "parameter type mismatch")
            /\ out.kind = "return" =>
                  /\ n = Len(f.params)
                  /\ \A i \in 1..n : ArgFits(f, i)
                  /\ out.ty = f.retType

\* a call with the right count whose second argument is the first misfit
C3_Witness ==
    /\ IsCallOfFunc
    /\ Len(t.args) = 2 /\ Len(sub(t.func).ty.params) = 2
    /\ ArgFits(sub(t.func).ty, 1) /\ ArgMismatch(sub(t.func).ty, 2)
    /\ Fails(out, "parameter type mismatch")

(***************************************************************************)
(* C4                                                                      *)
(***************************************************************************)
\* the term is seq(const(x, init, rest), var(x)) and x does not resolve in
\* the caller's environment
UseAfterConst ==
    /\ t.tag = "seq" /\ t.body.tag = "const"
    /\ t.rest = Var(t.body.name)
    /\ lookup(tyEnv, t.body.name) = undefined

FirstMisfit(funcTy, i) ==
    /\ ~ArgFits(funcTy, i)
    /\ \A j \in 1..(i - 1) : ArgFits(funcTy, j)

\* C9: a failure is that of the first failing check of the rule and no
\* sub-term after it is entered.  if: cond is checked and required Boolean
\* before thn and els; add: left is checked and required Number before
\* right; call: f, then the Func tag, then the argument count, before any
\* argument; then the arguments left to right, each one's typeEq test
\* before the next argument.
C9_FailFast ==
    "obj" \in pc =>
        /\ t.tag \in {"if", "add", "call"} => InOrder(out)
        /\ t.tag = "if" =>
            LET c == sub(t.cond)
            IN  /\ c.kind = "throw" =>
                     out.kind = "throw" /\ out.err = c.err
                     /\ ~Reached(out, 2) /\ ~Reached(out, 3)
                /\ (c.kind = "return" /\ c.ty.tag # "Boolean") =>
                     out.kind = "throw"
                     /\ out.err = error("boolean expected", t.cond)
                     /\ ~Reached(out, 2) /\ ~Reached(out, 3)
        /\ t.tag = "add" =>
            LET l == sub(t.left)
            IN  /\ l.kind = "throw" =>
                     out.kind = "throw" /\ out.err = l.err /\ ~Reached(out, 2)
                /\ (l.kind = "return" /\ l.ty.tag # "Number") =>
                     out.kind = "throw"
                     /\ out.err = error("number expected", t.left)
                     /\ ~Reached(out, 2)
        /\ t.tag = "call" =>
            LET f == sub(t.func)
                NoArgument == \A i \in 1..Len(t.args) : ~Reached(out, i)
            IN  /\ f.kind = "throw" =>
                     out.kind = "throw" /\ out.err = f.err /\ NoArgument
                /\ (f.kind = "return" /\ f.ty.tag # "Func") =>
                     out.kind = "throw"
                     /\ out.err = error("function type expected", t)
                     /\ NoArgument
                /\ (f.kind = "return" /\ f.ty.tag = "Func"
                        /\ Len(f.ty.params) # Len(t.args)) =>
                     out.kind = "throw"
                     /\ out.err = error("wrong number of arguments", t)
                     /\ NoArgument
                /\ (f.kind = "return" /\ f.ty.tag = "Func"
                        /\ Len(f.ty.params) = Len(t.args)) =>
                     \A i \in 1..Len(t.args) : FirstMisfit(f.ty, i) =>
                        /\ out.kind = "throw"
                        /\ out.err = IF sub(t.args[i]).kind = "throw"
                                     THEN sub(t.args[i]).err
                                     ELSE error("parameter type mismatch", t)
                        /\ \A j \in 1..i : Reached(out, j)
                        /\ \A j \in (i + 1)..Len(t.args) : ~Reached(out, j)

\* a call with a wrong argument count and an ill-typed argument: the count
\* is what is reported, and the argument was never entered
C9_Witness ==
    /\ "obj" \in pc /\ t.tag = "call"
    /\ sub(t.func).kind = "return" /\ sub(t.func).ty.tag = "Func"
    /\ Len(sub(t.func).ty.params) # Len(t.args)
    /\ \E i \in 1..Len(t.args) : sub(t.args[i]).kind = "throw"
    /\ out.err = error("wrong number of arguments", t)
    /\ Len(out.h.visited) = 2

(***************************************************************************)
(* C5                                                                      *)
(***************************************************************************)
\* the type the seq2 checker gives term under the bindings env (env itself
\* stands for a term that fails: nothing after it is checked)
TypeUnder(term, env) ==
    LET r == seq2_typecheck(term, 1, NewHeap(env), <<>>)
    IN  IF r.kind = "return" THEN r.ty ELSE none

\* env extended with the const2 bindings of stmts at the positions < i, a
\* later binding of a name overriding an earlier one
RECURSIVE Threaded(_, _, _)
Threaded(stmts, env, i) ==
    IF i = 1 THEN env
    ELSE LET before == Threaded(stmts, env, i - 1)
             s == stmts[i - 1]
         IN  IF s.tag = "const2"
             THEN envSet(before, s.name, TypeUnder(s.init, before))
             ELSE before

RECURSIVE WithParams(_, _, _)
WithParams(env, params, i) ==
    IF i > Len(params) THEN env
    ELSE WithParams(envSet(env, params[i].name, params[i].type), params, i + 1)

\* the bindings the position path of term is in scope of, term being
\* checked under env
RECURSIVE Scope(_, _, _)
Scope(term, env, path) ==
    IF path = <<>> THEN env
    ELSE LET k == Head(path)
         IN  CASE term.tag = "seq2" ->
                    IF term.body[k].tag = "const2"
                    THEN Scope(term.body[k].init, Threaded(term.body, env, k),
                               Tail(Tail(path)))
                    ELSE Scope(term.body[k], Threaded(term.body, env, k), Tail(path))
               [] term.tag = "func" ->
                    Scope(term.body, WithParams(env, term.params, 1), Tail(path))
               [] term.tag = "const" /\ k = 2 ->
                    Scope(term.rest, envSet(env, term.name, TypeUnder(term.init, env)),
                          Tail(path))
               [] OTHER -> Scope(Child(term, k), env, Tail(path))

\* the positions of the statements of a seq2 that are no const2
Plain(stmts) == {i \in 1..Len(stmts) : stmts[i].tag # "const2"}

\* C5: in seq2(stmts) statement i, and the init of a const2 at position i,
\* is checked under the ambient bindings extended with exactly the const2
\* bindings at the positions < i (a later one overriding an earlier one);
\* no binding reaches an earlier statement, its own init, or a term outside
\* the seq2 (the caller's object is left as it was); the result is the type
\* of the last statement that is no const2.
C5_Seq2Threading ==
    "seq2" \in pc =>
        /\ out_seq2.h.store[1] = tyEnv
        /\ \A v \in Visits(out_seq2) : v.env = Scope(t, tyEnv, v.path)
        /\ (t.tag = "seq2" /\ out_seq2.kind = "return" /\ Plain(t.body) # {}) =>
                LET last == Greatest(Plain(t.body))
                IN  out_seq2.ty = TypeUnder(t.body[last], Threaded(t.body, tyEnv, last))

\* two const2 of one name with different types, then a use of the name:
\* the use has the later type, and the caller's object has no binding of it
C5_Witness ==
    /\ "seq2" \in pc /\ t.tag = "seq2" /\ Len(t.body) = 3
    /\ t.body[1].tag = "const2" /\ t.body[2].tag = "const2"
    /\ t.body[1].name = t.body[2].name
    /\ t.body[3] = Var(t.body[1].name)
    /\ out_seq2.kind = "return"
    /\ out_seq2.ty = TypeUnder(t.body[2].init, tyEnv)
    /\ out_seq2.ty # TypeUnder(t.body[1].init, tyEnv)
    /\ t.body[1].name \notin DOMAIN out_seq2.h.store[1]

(***************************************************************************)
(* C8                                                                      *)
(***************************************************************************)
\* what a caller sees of an outcome: the Type returned, or that it failed
Outcome(r) == IF r.kind = "return" THEN [kind |-> "return", ty |-> r.ty]
              ELSE [kind |-> "throw"]

\* C8: on a term of true, false, number, if and add the checkers of
\* arith.ts, basic.ts and obj.ts (the latter two under {}) give the same
\* outcome, the same Type or a failure each; on a term of the constructs of
\* basic.ts the checkers of basic.ts and obj.ts give the same outcome under
\* the same environment.
C8_Refinement ==
    /\ ({"arith", "basic", "obj"} \subseteq pc /\ tyEnv = <<>>) =>
            /\ Outcome(out_arith) = Outcome(out_basic)
            /\ Outcome(out_arith) = Outcome(out)
    /\ {"basic", "obj"} \subseteq pc => Outcome(out_basic) = Outcome(out)

\* an if of the arith language with branches of different types, nested
\* where all three checkers have to reject it
C8_Witness ==
    /\ {"arith", "basic", "obj"} \subseteq pc /\ tyEnv = <<>>
    /\ t.tag = "add" /\ t.left.tag = "if"
    /\ t.left.cond = True /\ t.left.thn = Num /\ t.left.els = True
    /\ out_arith.kind = "throw" /\ out_basic.kind = "throw" /\ out.kind = "throw"

====
